---- MODULE Spec2Model ----
(***************************************************************************)
(* Model of assets/font.py: pack_font slices a region of an image into a   *)
(* grid of cells, extracts a Char from every cell (tight ink box, extents  *)
(* of the first and last ink column, row bitmasks) and packs the glyphs    *)
(* into a header table followed by a bitmap region.                        *)
(*                                                                         *)
(* The image is the external collaborator im_pixels[x, y].  It is modelled *)
(* as a tile of ink pixels repeated over the plane:                        *)
(*   [tile |-> <<w, h>>, ink |-> set of <<x, y>> inside the tile].         *)
(***************************************************************************)
EXTENDS Integers, Sequences, FiniteSets, TLC

VARIABLES
    im_pixels,      \* the image (pack_font line 18)
    im_rect,        \* <<x, y, size_x, size_y>> argument of pack_font
    ch_size,        \* <<size_x, size_y>> argument of pack_font
    pc,             \* position in pack_font
    ch_count_x,     \* line 21
    ch_count_y,     \* line 22
    ch_y,           \* the loop variable of line 24: grid rows finished
    ch_list,        \* line 23
    ch_headers,     \* line 32, a sequence of bytes
    ch_rows,        \* line 33, a sequence of bytes
    ch_headers_len, \* line 34
    ch_i,           \* number of glyphs the loop of line 35 has finished
    f_open,         \* TRUE once path_out was opened for writing (line 52)
    f_data,         \* the bytes written to path_out
    raised,         \* the exception that ended pack_font, or "none"
    px_read         \* <<x, y>>: exclusive upper bound of the pixels read so far

vars == <<im_pixels, im_rect, ch_size, pc, ch_count_x, ch_count_y, ch_y, ch_list,
          ch_headers, ch_rows, ch_headers_len, ch_i, f_open, f_data, raised,
          px_read>>

----------------------------------------------------------------------------
(* Program constants *)

MaxCharSize == 12
NibbleLimit == 16
ByteRowMaxWidth == 8
HeaderRecordLen == 4
KernLeadMaxY == 5
KernTrailMinY == 9
ByteLimit == 256

----------------------------------------------------------------------------
(* Arithmetic helpers *)

Min(S) == CHOOSE m \in S : \A n \in S : m <= n
Max(S) == CHOOSE m \in S : \A n \in S : m >= n

RECURSIVE Pow2(_)
Pow2(n) == IF n = 0 THEN 1 ELSE 2 * Pow2(n - 1)

\* Python's a | b on non-negative integers
RECURSIVE BitOr(_, _)
BitOr(a, b) ==
    IF a = 0 THEN b
    ELSE IF b = 0 THEN a
    ELSE (IF a % 2 = 1 \/ b % 2 = 1 THEN 1 ELSE 0) + 2 * BitOr(a \div 2, b \div 2)

\* Python's bool << n
BoolShl(b, n) == IF b THEN Pow2(n) ELSE 0

\* row |= (1 << i) over the set of bit positions that have ink
RECURSIVE OrBits(_)
OrBits(S) ==
    IF S = {} THEN 0
    ELSE LET i == CHOOSE j \in S : TRUE
         IN  BitOr(Pow2(i), OrBits(S \ {i}))

RECURSIVE Concat(_)
Concat(ss) == IF ss = <<>> THEN <<>> ELSE Head(ss) \o Concat(Tail(ss))

----------------------------------------------------------------------------
(* The image *)

Ink(im, x, y) == <<x % im.tile[1], y % im.tile[2]>> \in im.ink

----------------------------------------------------------------------------
(* class Char *)

\* mutant: the column after the last ink column
LastColumnPastEnd(x_max) == x_max

\* the column scanned for the extent of the last ink column (line 87)
LastColumn(x_max) == x_max - 1

\* mutant: the height is not checked
TooLargeWidthOnly(x_min, x_max, y_min, y_max) ==
    x_max - x_min > MaxCharSize

\* the size check of line 90
TooLarge(x_min, x_max, y_min, y_max) ==
    x_max - x_min > MaxCharSize \/ y_max - y_min > MaxCharSize

\* the asserts of lines 95-101
AssertsHold(c) ==
    /\ 0 <= c.x_max - c.x_min /\ c.x_max - c.x_min < NibbleLimit
    /\ 0 <= c.y_max - c.y_min /\ c.y_max - c.y_min < NibbleLimit
    /\ 0 <= c.y_min_first - c.y_min /\ c.y_min_first - c.y_min < NibbleLimit
    /\ 0 <= c.y_max_first - c.y_min /\ c.y_max_first - c.y_min < NibbleLimit
    /\ 0 <= c.y_min_last - c.y_min /\ c.y_min_last - c.y_min < NibbleLimit
    /\ 0 <= c.y_max_last - c.y_min /\ c.y_max_last - c.y_min < NibbleLimit
    /\ 0 <= c.y_min - c.im_rect_y /\ c.y_min - c.im_rect_y < NibbleLimit

\* one row bitmask, lines 103-108
RowMask(im, x_min, x_max, px_y) ==
    OrBits({px_x - x_min : px_x \in {x \in x_min .. x_max - 1 : Ink(im, x, px_y)}})

\* the tight ink box of the pixel scan of lines 64-67 and 73-79
InkBox(im, rect) ==
    LET rx_max == rect[1] + rect[3]
        ry_max == rect[2] + rect[4]
        inked == {p \in (rect[1] .. rx_max - 1) \X (rect[2] .. ry_max - 1) :
                    Ink(im, p[1], p[2])}
    IN  [x_min |-> Min({rx_max} \cup {p[1] : p \in inked}),
         x_max |-> Max({rect[1]} \cup {p[1] + 1 : p \in inked}),
         y_min |-> Min({ry_max} \cup {p[2] : p \in inked}),
         y_max |-> Max({rect[2]} \cup {p[2] + 1 : p \in inked})]

\* the fields of a Char at the return of line 81 (box is the ink box)
CharFields(rect, box) ==
    [im_rect_x |-> rect[1], im_rect_y |-> rect[2],
     im_rect_x_size |-> rect[3], im_rect_y_size |-> rect[4],
     im_rect_x_max |-> rect[1] + rect[3], im_rect_y_max |-> rect[2] + rect[4],
     x_min |-> box.x_min, x_max |-> box.x_max,
     y_min |-> box.y_min, y_max |-> box.y_max,
     y_min_first |-> rect[2] + rect[4], y_max_first |-> rect[2],
     y_min_last |-> rect[2] + rect[4], y_max_last |-> rect[2],
     rows |-> <<>>, raised |-> "none"]

\* the scans of the first and of the last ink column, lines 82-89
ColumnExtents(im, c) ==
    LET ys == c.im_rect_y .. c.im_rect_y_max - 1
        first == {y \in ys : Ink(im, c.x_min, y)}
        last == {y \in ys : Ink(im, LastColumn(c.x_max), y)}
    IN  [c EXCEPT
           !.y_min_first = Min({c.im_rect_y_max} \cup first),
           !.y_max_first = Max({c.im_rect_y} \cup {y + 1 : y \in first}),
           !.y_min_last = Min({c.im_rect_y_max} \cup last),
           !.y_max_last = Max({c.im_rect_y} \cup {y + 1 : y \in last})]

\* lines 90-109: the size check, the asserts and the rows
CheckAndRows(im, c) ==
    IF TooLarge(c.x_min, c.x_max, c.y_min, c.y_max)
      THEN [c EXCEPT !.raised = "ValueError"]
    ELSE IF ~AssertsHold(c)
      THEN [c EXCEPT !.raised = "AssertionError"]
    ELSE [c EXCEPT !.rows =
            <<>> \o [r \in 1 .. c.y_max - c.y_min |->
                       RowMask(im, c.x_min, c.x_max, c.y_min + r - 1)]]

Only(S) == CHOOSE x \in S : TRUE

\* Char.__init__: the fields of the object, and in raised the exception that
\* ended the constructor ("none" when it returned)
Char(im, rect) ==
    Only({IF c0.x_min >= c0.x_max
            THEN c0
            ELSE Only({CheckAndRows(im, c1) : c1 \in {ColumnExtents(im, c0)}}) :
          c0 \in {CharFields(rect, box) : box \in {InkBox(im, rect)}}})

\* mutant: a glyph one pixel wide or high counts as blank
is_blank_thin(c) == c.x_max <= c.x_min + 1 \/ c.y_max <= c.y_min + 1

\* Char.is_blank
is_blank(c) == c.x_max <= c.x_min \/ c.y_max <= c.y_min

\* mutant: the first flag asks for a start above row 5
KernFlagsStrict(c) ==
    [lead |-> c.y_min_last - c.im_rect_y < KernLeadMaxY
                /\ c.y_min_last = c.y_max_last - 1,
     gap_before |-> c.y_min_first - c.im_rect_y > KernLeadMaxY,
     trail |-> c.y_min_first - c.im_rect_y >= KernTrailMinY
                /\ c.y_min_first = c.y_max_first - 1,
     gap_after |-> c.y_max_last - c.im_rect_y < KernTrailMinY]

\* the four kerning flags of encode_header, lines 123-139
KernFlags(c) ==
    [lead |-> c.y_min_last - c.im_rect_y <= KernLeadMaxY
                /\ c.y_min_last = c.y_max_last - 1,
     gap_before |-> c.y_min_first - c.im_rect_y > KernLeadMaxY,
     trail |-> c.y_min_first - c.im_rect_y >= KernTrailMinY
                /\ c.y_min_first = c.y_max_first - 1,
     gap_after |-> c.y_max_last - c.im_rect_y < KernTrailMinY]

\* Char.encode_header: the two bytes, or "ValueError" in raised when bytes(b)
\* is given a value outside range(256)
encode_header(c) ==
    LET k == KernFlags(c)
        b0 == BitOr(Max({0, c.x_max - c.x_min}),
                    Max({0, c.y_max - c.y_min}) * Pow2(4))
        b1 == BitOr(Max({0, c.y_min - c.im_rect_y}),
              BitOr(BoolShl(k.lead, 4),
              BitOr(BoolShl(k.gap_before, 5),
              BitOr(BoolShl(k.trail, 6), BoolShl(k.gap_after, 7)))))
    IN  IF b0 < ByteLimit /\ b1 < ByteLimit
          THEN [bytes |-> <<b0, b1>>, raised |-> "none"]
          ELSE [bytes |-> <<>>, raised |-> "ValueError"]

\* mutant: rows of 9 pixels still packed as bytes
IsWideOffByOne(c) == c.x_max - c.x_min > ByteRowMaxWidth + 1

\* wide, line 144
IsWide(c) == c.x_max - c.x_min > ByteRowMaxWidth

\* mutant: the two-byte rows packed big-endian (">H")
encode_rows_big_endian(c) ==
    LET limit == IF IsWide(c) THEN ByteLimit * ByteLimit ELSE ByteLimit
    IN  IF \E r \in 1 .. Len(c.rows) : c.rows[r] >= limit
          THEN [bytes |-> <<>>, raised |-> "struct.error"]
        ELSE IF IsWide(c)
          THEN [bytes |-> Concat([r \in 1 .. Len(c.rows) |->
                             <<c.rows[r] \div ByteLimit, c.rows[r] % ByteLimit>>]),
                raised |-> "none"]
        ELSE [bytes |-> c.rows, raised |-> "none"]

\* Char.encode_rows: struct.pack of the rows as "<H..." or "<B...", or
\* "struct.error" in raised when a row does not fit the format
encode_rows(c) ==
    LET limit == IF IsWide(c) THEN ByteLimit * ByteLimit ELSE ByteLimit
    IN  IF \E r \in 1 .. Len(c.rows) : c.rows[r] >= limit
          THEN [bytes |-> <<>>, raised |-> "struct.error"]
        ELSE IF IsWide(c)
          THEN [bytes |-> Concat([r \in 1 .. Len(c.rows) |->
                             <<c.rows[r] % ByteLimit, c.rows[r] \div ByteLimit>>]),
                raised |-> "none"]
        ELSE [bytes |-> c.rows, raised |-> "none"]

----------------------------------------------------------------------------
(* pack_font *)

\* math.floor(size / ch) for the non-negative sizes of the model, lines 21-22
ChCount(size, ch) == size \div ch

\* mutant: the grid position transposed
CellRectTransposed(rect, size, cx, cy) ==
    <<rect[1] + (cy * size[1]), rect[2] + (cx * size[2]), size[1], size[2]>>

\* the rectangle handed to Char for grid position (ch_x, ch_y), lines 26-31
CellRect(rect, size, cx, cy) ==
    <<rect[1] + (cx * size[1]), rect[2] + (cy * size[2]), size[1], size[2]>>

\* mutant: the offset counted from the start of the bitmap region
ChOffsetInBitmap(rows_len, headers_len) == rows_len

\* line 38
ChOffset(rows_len, headers_len) == rows_len + headers_len

\* mutant: the high byte masked, (ch_offset >> 8) & 0xff
OffsetBytesMasked(ch_offset) ==
    [bytes |-> <<ch_offset % ByteLimit, (ch_offset \div ByteLimit) % ByteLimit>>,
     raised |-> "none"]

\* the bytes([...]) of lines 41-44
OffsetBytes(ch_offset) ==
    LET lo == ch_offset % ByteLimit
        hi == ch_offset \div ByteLimit
    IN  IF hi < ByteLimit
          THEN [bytes |-> <<lo, hi>>, raised |-> "none"]
          ELSE [bytes |-> <<>>, raised |-> "ValueError"]

\* the Chars the loop of line 25 constructs for grid row cy, left to right
RowChars(im, rect, size, cy, count_x) ==
    <<>> \o [x \in 1 .. count_x |-> Char(im, CellRect(rect, size, x - 1, cy))]

\* lines 16-23
Start ==
    /\ pc = "start"
    /\ ch_count_x' = ChCount(im_rect[3], ch_size[1])
    /\ ch_count_y' = ChCount(im_rect[4], ch_size[2])
    /\ ch_list' = <<>>
    /\ ch_y' = 0
    /\ pc' = "extract"
    /\ UNCHANGED <<im_pixels, im_rect, ch_size, ch_headers, ch_rows,
                   ch_headers_len, ch_i, f_open, f_data, raised, px_read>>

\* one iteration of the loop of line 24: the cells of grid row ch_y, left to
\* right (lines 25-31); the first constructor that raises ends pack_font
ExtractRow ==
    /\ pc = "extract"
    /\ ch_y < ch_count_y
    /\ \E cs \in {RowChars(im_pixels, im_rect, ch_size, ch_y, ch_count_x)} :
         LET bad == {x \in 1 .. Len(cs) : cs[x].raised # "none"}
         IN  IF bad = {}
               THEN /\ ch_list' = ch_list \o cs
                    /\ ch_y' = ch_y + 1
                    /\ px_read' =
                          IF cs = <<>> THEN px_read
                          ELSE <<Max({px_read[1], cs[Len(cs)].im_rect_x_max}),
                                 Max({px_read[2], cs[Len(cs)].im_rect_y_max})>>
                    /\ UNCHANGED <<pc, raised>>
               ELSE \E n \in {Min(bad)} :
                    /\ ch_list' = ch_list \o SubSeq(cs, 1, n - 1)
                    /\ pc' = "error"
                    /\ raised' = cs[n].raised
                    /\ px_read' = <<Max({px_read[1], cs[n].im_rect_x_max}),
                                    Max({px_read[2], cs[n].im_rect_y_max})>>
                    /\ UNCHANGED ch_y
    /\ UNCHANGED <<im_pixels, im_rect, ch_size, ch_count_x, ch_count_y,
                   ch_headers, ch_rows, ch_headers_len, ch_i, f_open, f_data>>

\* lines 32-34, once the grid loops are over
BeginPack ==
    /\ pc = "extract"
    /\ ch_y >= ch_count_y
    /\ ch_headers' = <<>>
    /\ ch_rows' = <<>>
    /\ ch_headers_len' = HeaderRecordLen * Len(ch_list)
    /\ ch_i' = 0
    /\ pc' = "pack"
    /\ UNCHANGED <<im_pixels, im_rect, ch_size, ch_count_x, ch_count_y, ch_y,
                   ch_list, f_open, f_data, raised, px_read>>

\* one iteration of the loop of lines 35-44
PackGlyph ==
    /\ pc = "pack"
    /\ ch_i < Len(ch_list)
    /\ LET ch == ch_list[ch_i + 1]
           nonblank == ~is_blank(ch)
           ch_offset == IF nonblank THEN ChOffset(Len(ch_rows), ch_headers_len) ELSE 0
           enc == IF nonblank THEN encode_rows(ch) ELSE [bytes |-> <<>>, raised |-> "none"]
           hdr == encode_header(ch)
           off == OffsetBytes(ch_offset)
       IN  IF enc.raised # "none"
             THEN /\ pc' = "error"
                  /\ raised' = enc.raised
                  /\ UNCHANGED <<ch_headers, ch_rows, ch_i>>
           ELSE IF hdr.raised # "none"
             THEN /\ pc' = "error"
                  /\ raised' = hdr.raised
                  /\ ch_rows' = ch_rows \o enc.bytes
                  /\ UNCHANGED <<ch_headers, ch_i>>
           ELSE IF off.raised # "none"
             THEN /\ pc' = "error"
                  /\ raised' = off.raised
                  /\ ch_rows' = ch_rows \o enc.bytes
                  /\ ch_headers' = ch_headers \o hdr.bytes
                  /\ UNCHANGED ch_i
           ELSE /\ ch_rows' = ch_rows \o enc.bytes
                /\ ch_headers' = ch_headers \o hdr.bytes \o off.bytes
                /\ ch_i' = ch_i + 1
                /\ UNCHANGED <<pc, raised>>
    /\ UNCHANGED <<im_pixels, im_rect, ch_size, ch_count_x, ch_count_y, ch_y,
                   ch_list, ch_headers_len, f_open, f_data, px_read>>

\* line 45
AssertHeadersLen ==
    /\ pc = "pack"
    /\ ch_i = Len(ch_list)
    /\ IF Len(ch_headers) = ch_headers_len
         THEN pc' = "write" /\ UNCHANGED raised
         ELSE pc' = "error" /\ raised' = "AssertionError"
    /\ UNCHANGED <<im_pixels, im_rect, ch_size, ch_count_x, ch_count_y, ch_y,
                   ch_list, ch_headers, ch_rows, ch_headers_len, ch_i, f_open, f_data,
                   px_read>>

\* lines 52-54
WriteOutput ==
    /\ pc = "write"
    /\ f_open' = TRUE
    /\ f_data' = ch_headers \o ch_rows
    /\ pc' = "done"
    /\ UNCHANGED <<im_pixels, im_rect, ch_size, ch_count_x, ch_count_y, ch_y,
                   ch_list, ch_headers, ch_rows, ch_headers_len, ch_i, raised, px_read>>

Next ==
    \/ Start
    \/ ExtractRow
    \/ BeginPack
    \/ PackGlyph
    \/ AssertHeadersLen
    \/ WriteOutput

----------------------------------------------------------------------------
(* The calls of pack_font that are explored *)

\* ink pixels per image tile
MaxInk == 2
\* the tile of the images cut into small cells
SmallW == 3
SmallH == 3
\* a grid of 1x1 cells whose header table alone ends 3 bytes short of 2^16
LargeCols == 129
LargeRows == 127

RECURSIVE SubsetsUpTo(_, _)
SubsetsUpTo(S, n) ==
    IF n = 0 THEN {{}}
    ELSE LET prev == SubsetsUpTo(S, n - 1)
         IN  prev \cup {s \cup {x} : s \in prev, x \in S}

Images(tile, points) ==
    {[tile |-> tile, ink |-> s] : s \in SubsetsUpTo(points, MaxInk)}

Inputs(images, grids) ==
    {[im |-> i, im_rect |-> g.im_rect, ch_size |-> g.ch_size] :
        i \in images, g \in grids}

\* small cells: grids of several rows and columns, a region that does not
\* start at the origin, a remainder right of and below the last whole cell
SmallGrids ==
    {[ch_size |-> <<2, 2>>, im_rect |-> <<1, 0, 5, 5>>],
     [ch_size |-> <<3, 2>>, im_rect |-> <<0, 1, 4, 4>>],
     [ch_size |-> <<2, 3>>, im_rect |-> <<0, 0, 4, 4>>]}

\* a region narrower than one cell: a grid without cells
EmptyGrids == {[ch_size |-> <<3, 3>>, im_rect |-> <<0, 0, 2, 4>>]}

SmallInputs ==
    Inputs(Images(<<SmallW, SmallH>>, (0 .. SmallW - 1) \X (0 .. SmallH - 1)),
           SmallGrids)
    \cup Inputs(Images(<<SmallW, SmallH>>, {<<0, 0>>}), EmptyGrids)

\* full-size cells: ink on the columns and rows where the widths 8, 9, 12, 13,
\* the heights 12, 13 and the kerning thresholds 5 and 9 are decided; grids of
\* the cell sizes 8x12 and 12x12; cells of 16 rows with ink on the last one;
\* cells of 17 rows
TallInputs ==
    Inputs(Images(<<32, 32>>, {0, 7, 8, 12} \X {0, 5, 6, 8, 9, 12}),
           {[ch_size |-> <<13, 16>>, im_rect |-> <<0, 0, 13, 17>>]})
    \cup Inputs(Images(<<32, 32>>, {0, 7, 8} \X {0, 5, 9, 12}),
              {[ch_size |-> <<8, 12>>, im_rect |-> <<0, 0, 16, 24>>]})
    \cup Inputs(Images(<<32, 32>>, {0, 8, 12} \X {0, 6, 12}),
              {[ch_size |-> <<12, 12>>, im_rect |-> <<0, 0, 24, 24>>]})
    \cup Inputs(Images(<<32, 32>>, {0, 11} \X {0, 15}),
              {[ch_size |-> <<16, 16>>, im_rect |-> <<0, 0, 16, 16>>]})
    \cup Inputs(Images(<<32, 32>>, {0, 12} \X {0, 9, 12, 16}),
              {[ch_size |-> <<13, 17>>, im_rect |-> <<0, 0, 13, 17>>]})

\* the shapes the kerning flags are meant for, an "f" and a "j" drawn in two
\* cells of 8x12 pixels, in a region that starts at row 24 as font_latin's does
LetterInk ==
    {<<2, 1>>, <<3, 1>>, <<1, 2>>, <<1, 3>>, <<0, 4>>, <<1, 4>>, <<2, 4>>,
     <<1, 5>>, <<1, 6>>, <<1, 7>>, <<1, 8>>}
    \cup {<<11, 1>>, <<11, 3>>, <<11, 4>>, <<11, 5>>, <<11, 6>>, <<11, 7>>,
          <<11, 8>>, <<11, 9>>, <<10, 10>>, <<9, 10>>, <<8, 9>>}

LetterInputs ==
    {[im |-> [tile |-> <<16, 12>>, ink |-> LetterInk],
      im_rect |-> <<0, 24, 16, 12>>, ch_size |-> <<8, 12>>]}

\* the first n cells of grid row 0 of a grid of 1x1 cells inked
FirstCells(cols, rows, n) ==
    [tile |-> <<cols, rows>>, ink |-> (0 .. n - 1) \X {0}]

\* fonts at the limit of the 16-bit offsets: LargeCols * LargeRows 1x1 cells
\* put the first bitmap at offset 65532, one cell more puts it past 65535;
\* and a solid image cut into 12x12 cells that fits
LargeInputs ==
    {[im |-> FirstCells(LargeCols, LargeRows, 5),
      im_rect |-> <<0, 0, LargeCols, LargeRows>>, ch_size |-> <<1, 1>>],
     [im |-> FirstCells(LargeCols - 1, LargeRows + 1, 2),
      im_rect |-> <<0, 0, LargeCols - 1, LargeRows + 1>>, ch_size |-> <<1, 1>>],
     [im |-> [tile |-> <<1, 1>>, ink |-> {<<0, 0>>}],
      im_rect |-> <<0, 0, 12 * 16, 12 * 16>>, ch_size |-> <<12, 12>>]}

InitWith(inp) ==
    /\ im_pixels = inp.im
    /\ im_rect = inp.im_rect
    /\ ch_size = inp.ch_size
    /\ pc = "start"
    /\ ch_count_x = 0
    /\ ch_count_y = 0
    /\ ch_y = 0
    /\ ch_list = <<>>
    /\ ch_headers = <<>>
    /\ ch_rows = <<>>
    /\ ch_headers_len = 0
    /\ ch_i = 0
    /\ f_open = FALSE
    /\ f_data = <<>>
    /\ raised = "none"
    /\ px_read = <<0, 0>>

Init == \E inp \in SmallInputs \cup TallInputs \cup LetterInputs : InitWith(inp)

InitLarge == \E inp \in LargeInputs : InitWith(inp)

Spec == Init /\ [][Next]_vars

SpecLarge == InitLarge /\ [][Next]_vars

----------------------------------------------------------------------------
(* What the properties are stated in: the grid, the ink of a cell and the  *)
(* fields of the records, read from the inputs and from the bytes          *)

GridCountX == im_rect[3] \div ch_size[1]
GridCountY == im_rect[4] \div ch_size[2]
GridCount == GridCountX * GridCountY

\* the cell of record number k (0-based), row-major
GridRect(k) ==
    <<im_rect[1] + (k % GridCountX) * ch_size[1],
      im_rect[2] + (k \div GridCountX) * ch_size[2],
      ch_size[1], ch_size[2]>>

\* the pixels of a rectangle that have ink
InkOf(rect) ==
    {p \in (rect[1] .. rect[1] + rect[3] - 1) \X (rect[2] .. rect[2] + rect[4] - 1) :
        <<p[1] % im_pixels.tile[1], p[2] % im_pixels.tile[2]>> \in im_pixels.ink}

\* the cells of the grid, each with its number k, its rectangle and its ink
GridCells ==
    {[k |-> k, rect |-> GridRect(k), ink |-> InkOf(GridRect(k))] :
        k \in 0 .. GridCount - 1}

\* the tight box of a non-empty set of ink pixels
BoxXMin(ink) == Min({p[1] : p \in ink})
BoxXMax(ink) == Max({p[1] : p \in ink}) + 1
BoxYMin(ink) == Min({p[2] : p \in ink})
BoxYMax(ink) == Max({p[2] : p \in ink}) + 1
\* its width and height, 0 for the empty set
BoxWidth(ink) == IF ink = {} THEN 0 ELSE BoxXMax(ink) - BoxXMin(ink)
BoxHeight(ink) == IF ink = {} THEN 0 ELSE BoxYMax(ink) - BoxYMin(ink)

\* the rows of column x that have ink
ColumnRows(ink, x) == {p[2] : p \in {q \in ink : q[1] = x}}

\* bytes of the encoded bitmap of a glyph of this width and height
BitmapLen(w, h) == h * (IF w <= 8 THEN 1 ELSE 2)

RECURSIVE SumOver(_, _)
SumOver(f, S) ==
    IF S = {} THEN 0
    ELSE LET x == CHOOSE y \in S : TRUE
         IN  f[x] + SumOver(f, S \ {x})

\* the bitmap bytes of the cells among the first k of the grid
BitmapBytesBefore(cells, k) ==
    SumOver([c \in cells |-> BitmapLen(BoxWidth(c.ink), BoxHeight(c.ink))],
            {c \in cells : c.k < k})

\* fields of record k of a byte sequence that starts with the header table
RecByte(data, k, n) == data[4 * k + n + 1]
RecWidth(data, k) == RecByte(data, k, 0) % 16
RecHeight(data, k) == RecByte(data, k, 0) \div 16
RecYOffset(data, k) == RecByte(data, k, 1) % 16
RecOffset(data, k) == RecByte(data, k, 2) + 256 * RecByte(data, k, 3)

\* row r (0-based) of the bitmap record k points to
RecRow(data, k, r) ==
    IF RecWidth(data, k) <= 8
      THEN data[RecOffset(data, k) + r + 1]
      ELSE data[RecOffset(data, k) + 2 * r + 1]
             + 256 * data[RecOffset(data, k) + 2 * r + 2]

BitSet(v, i) == (v \div Pow2(i)) % 2 = 1

----------------------------------------------------------------------------
(* C1: round trip.  In every output pack_font writes, for every cell with  *)
(* ink, record k decodes (width = low nibble of byte 0, height = high      *)
(* nibble, rows at the 16-bit little-endian offset of bytes 2-3, one byte  *)
(* per row if width <= 8, else two little-endian) to the width, height and *)
(* rows Char computed, and bit i of decoded row r is set exactly when the  *)
(* pixel (x_min + i, y_min + r) has ink.                                   *)
C1_RoundTrip ==
    pc = "done" =>
      \A cell \in GridCells :
        cell.ink # {} =>
          LET c == ch_list[cell.k + 1]
              w == RecWidth(f_data, cell.k)
              h == RecHeight(f_data, cell.k)
          IN  /\ w = c.x_max - c.x_min
              /\ h = c.y_max - c.y_min
              /\ Len(c.rows) = h
              /\ c.x_min = BoxXMin(cell.ink)
              /\ c.y_min = BoxYMin(cell.ink)
              /\ \A r \in 0 .. h - 1 :
                   /\ RecRow(f_data, cell.k, r) = c.rows[r + 1]
                   /\ \A i \in 0 .. w - 1 :
                        BitSet(RecRow(f_data, cell.k, r), i)
                          <=> <<c.x_min + i, c.y_min + r>> \in cell.ink

\* an output with a glyph of two-byte rows and two rows that differ
C1_Witness ==
    /\ pc = "done"
    /\ \E cell \in GridCells :
         /\ cell.ink # {}
         /\ RecWidth(f_data, cell.k) > 8
         /\ RecHeight(f_data, cell.k) >= 2
         /\ RecRow(f_data, cell.k, 0) # RecRow(f_data, cell.k, 1)

(* C2: offsets.  After any prefix of the glyph list, the offset written for *)
(* each glyph with ink is 4 * (glyph count) plus the bitmap bytes of the    *)
(* glyphs with ink before it, so the offsets of consecutive glyphs with ink *)
(* never decrease.                                                          *)
C2_OffsetFormula ==
    ch_i > 0 =>
      \A cells \in {GridCells} :
        \A c \in cells :
          (c.k < ch_i /\ c.ink # {}) =>
            /\ RecOffset(ch_headers, c.k) = 4 * GridCount + BitmapBytesBefore(cells, c.k)
            /\ \A b \in cells :
                 (b.k < c.k /\ b.ink # {}) =>
                   RecOffset(ch_headers, b.k) <= RecOffset(ch_headers, c.k)

\* the loop is under way and has written two different offsets
C2_Witness ==
    /\ pc = "pack"
    /\ ch_i < Len(ch_list)
    /\ \E b, c \in GridCells :
         /\ b.k < c.k
         /\ c.k < ch_i
         /\ b.ink # {}
         /\ c.ink # {}
         /\ RecOffset(ch_headers, b.k) < RecOffset(ch_headers, c.k)

(* C3: blank sentinel.  In every output the offset field of record k is 0  *)
(* if and only if cell k has no ink; cells without ink add no byte to the  *)
(* bitmap region; every cell with ink has an offset >= 4 * count > 0.      *)
C3_BlankSentinel ==
    pc = "done" =>
      \A cells \in {GridCells} :
        /\ \A c \in cells :
             /\ RecOffset(f_data, c.k) = 0 <=> c.ink = {}
             /\ c.ink # {} =>
                  /\ RecOffset(f_data, c.k) >= 4 * GridCount
                  /\ 4 * GridCount > 0
        /\ Len(f_data) = 4 * GridCount + BitmapBytesBefore(cells, GridCount)

\* an output with a blank cell between two cells with ink
C3_Witness ==
    /\ pc = "done"
    /\ \E a, b, c \in GridCells :
         /\ a.k < b.k /\ b.k < c.k
         /\ a.ink # {} /\ b.ink = {} /\ c.ink # {}
         /\ RecOffset(f_data, b.k) = 0
         /\ RecOffset(f_data, c.k) > RecOffset(f_data, a.k)

(* C4: all-zero blank record.  A cell without ink yields the header record *)
(* 00 00 00 00 and no bitmap bytes, so the output for a grid of one blank  *)
(* cell is four zero bytes.                                                *)
C4_BlankRecordAllZero ==
    pc = "done" =>
      \A cells \in {GridCells} :
        /\ \A c \in cells :
             c.ink = {} =>
               [n \in 1 .. 4 |-> RecByte(f_data, c.k, n - 1)] = <<0, 0, 0, 0>>
        /\ (GridCount = 1 /\ \A c \in cells : c.ink = {}) => f_data = <<0, 0, 0, 0>>

\* the second header byte the layout of the format gives a cell with ink
FlagByte(cell) ==
    LET firstRows == ColumnRows(cell.ink, BoxXMin(cell.ink))
        lastRows == ColumnRows(cell.ink, BoxXMax(cell.ink) - 1)
        yOff == BoxYMin(cell.ink) - cell.rect[2]
        b4 == Min(lastRows) - cell.rect[2] <= 5 /\ Max(lastRows) = Min(lastRows)
        b5 == Min(firstRows) - cell.rect[2] > 5
        b6 == Min(firstRows) - cell.rect[2] >= 9 /\ Max(firstRows) = Min(firstRows)
        b7 == Max(lastRows) + 1 - cell.rect[2] < 9
    IN  yOff + (IF b4 THEN 16 ELSE 0) + (IF b5 THEN 32 ELSE 0)
             + (IF b6 THEN 64 ELSE 0) + (IF b7 THEN 128 ELSE 0)

(* C5: header byte 2.  For every glyph with ink in a cell at most 16 high, *)
(* the second header byte is yOff + 16*b4 + 32*b5 + 64*b6 + 128*b7, where  *)
(* yOff = y_min - cell.y lies in 0..15, b4: the rightmost ink column's     *)
(* extent starts at a relative row <= 5 and is one row tall, b5: the       *)
(* leftmost ink column's extent starts at a relative row > 5, b6: it       *)
(* starts at a relative row >= 9 and is one row tall, b7: the rightmost    *)
(* column's extent ends (exclusive) at a relative row < 9.                 *)
C5_HeaderByte2 ==
    (pc = "done" /\ ch_size[2] <= 16) =>
      \A cell \in GridCells :
        cell.ink # {} =>
          /\ RecByte(f_data, cell.k, 1) = FlagByte(cell)
          /\ RecYOffset(f_data, cell.k) = BoxYMin(cell.ink) - cell.rect[2]
          /\ BoxYMin(cell.ink) - cell.rect[2] \in 0 .. 15

\* an output with a glyph whose four flags are all set, below the cell top
C5_Witness ==
    /\ pc = "done"
    /\ ch_size[2] <= 16
    /\ \E cell \in GridCells :
         /\ cell.ink # {}
         /\ RecByte(f_data, cell.k, 1) >= 240
         /\ RecYOffset(f_data, cell.k) > 0

(* C6: the size limit is fatal.  If a cell of the grid has an ink box      *)
(* wider or taller than 12, pack_font never gets past the extraction of    *)
(* the cells, ends in an error and writes nothing; and in every run that   *)
(* writes output every record holds a width and a height in 0..12, the     *)
(* size of the cell's ink box (0 for a cell without ink).                  *)
C6_SizeLimitFatal ==
    \A cells \in {GridCells} :
      /\ (\E c \in cells : BoxWidth(c.ink) > 12 \/ BoxHeight(c.ink) > 12) =>
           /\ ~f_open
           /\ f_data = <<>>
           /\ pc \in {"start", "extract", "error"}
           /\ ~(pc = "extract" /\ ch_y >= ch_count_y)
           /\ pc = "error" => raised \in {"ValueError", "AssertionError"}
      /\ f_open =>
           \A c \in cells :
             /\ RecWidth(f_data, c.k) \in 0 .. 12
             /\ RecHeight(f_data, c.k) \in 0 .. 12
             /\ RecWidth(f_data, c.k) = BoxWidth(c.ink)
             /\ RecHeight(f_data, c.k) = BoxHeight(c.ink)

\* the constructor refused a glyph that is 13 high and at most 12 wide
C6_Witness ==
    /\ pc = "error"
    /\ raised = "ValueError"
    /\ ~f_open
    /\ \E c \in GridCells : BoxHeight(c.ink) = 13 /\ BoxWidth(c.ink) <= 12

\* the loop of line 35 is about to pack a glyph with ink
PackingInked ==
    /\ pc = "pack"
    /\ ch_i < Len(ch_list)
    /\ InkOf(GridRect(ch_i)) # {}

(* C7: offset overflow is fatal.  When the offset computed for a glyph     *)
(* with ink, 4 * (glyph count) + the bitmap bytes accumulated so far,      *)
(* exceeds 65535, pack_font ends in an error and writes nothing; otherwise *)
(* the record it appends holds exactly that offset.  Output is written     *)
(* only by a run that packed every glyph.                                  *)
C7_OffsetOverflowFatal ==
    /\ [][PackingInked =>
            IF 4 * GridCount + Len(ch_rows) > 65535
              THEN pc' = "error" /\ raised' # "none" /\ ~f_open' /\ f_data' = <<>>
                   /\ ch_i' = ch_i
              ELSE pc' = "pack" /\ ch_i' = ch_i + 1
                   /\ RecOffset(ch_headers', ch_i) = 4 * GridCount + Len(ch_rows)]_vars
    /\ [](pc = "error" => ~f_open /\ f_data = <<>>)
    /\ [](f_open => pc = "done" /\ ch_i = GridCount
                      /\ f_data = ch_headers \o ch_rows
                      /\ Len(ch_headers) = 4 * GridCount)

\* four glyphs got the offsets up to 65535 and the fifth ended the run
C7_Witness ==
    /\ pc = "error"
    /\ raised = "ValueError"
    /\ ch_i = 4
    /\ RecOffset(ch_headers, 3) = 65535
    /\ 4 * GridCount + Len(ch_rows) - 1 > 65535
    /\ ~f_open

(* C8: grid order.  pack_font makes floor(width / cellWidth) *              *)
(* floor(height / cellHeight) records, record k is the one of the cell at   *)
(* (x + (k mod countX) * cellWidth, y + (k div countX) * cellHeight), and   *)
(* no pixel right of or below the last whole cell is read.                  *)
C8_GridOrder ==
    /\ \A k \in 0 .. Len(ch_list) - 1 :
         /\ k < GridCount
         /\ <<ch_list[k + 1].im_rect_x, ch_list[k + 1].im_rect_y,
              ch_list[k + 1].im_rect_x_size, ch_list[k + 1].im_rect_y_size>>
              = GridRect(k)
    /\ pc \in {"pack", "write", "done"} => Len(ch_list) = GridCount
    /\ px_read[1] <= Max({0, im_rect[1] + GridCountX * ch_size[1]})
    /\ px_read[2] <= Max({0, im_rect[2] + GridCountY * ch_size[2]})
    /\ pc = "done" =>
         /\ Len(ch_headers) = 4 * GridCount
         /\ Len(f_data) >= 4 * GridCount
         /\ \A c \in GridCells :
              /\ RecWidth(f_data, c.k) = BoxWidth(c.ink)
              /\ RecHeight(f_data, c.k) = BoxHeight(c.ink)

\* an output for a grid of two rows and two columns in a region with a
\* remainder on both sides, ink only in the cell of the second row and first
\* column and in the remainder
C8_Witness ==
    /\ pc = "done"
    /\ GridCountX = 2
    /\ GridCountY = 2
    /\ im_rect[3] % ch_size[1] # 0
    /\ im_rect[4] % ch_size[2] # 0
    /\ RecWidth(f_data, 2) > 0
    /\ RecWidth(f_data, 0) = 0 /\ RecWidth(f_data, 1) = 0 /\ RecWidth(f_data, 3) = 0
    /\ InkOf(<<im_rect[1] + im_rect[3] - 1, im_rect[2], 1, im_rect[4]>>) # {}

\* the bytes the format gives a row of a glyph of width w
RowBytes(w, row) == IF w <= 8 THEN <<row>> ELSE <<row % 256, row \div 256>>

(* C9: row width boundary.  The bitmap of a glyph with ink is its height   *)
(* rows, top to bottom, one byte each when the width is <= 8 and two       *)
(* little-endian bytes each when it is 9..12; every row is < 2^width, so   *)
(* packing a row never fails.                                              *)
C9_RowWidthBoundary ==
    /\ raised # "struct.error"
    /\ ch_i > 0 =>
         \A cells \in {GridCells} :
           /\ \A cell \in cells :
                (cell.k < ch_i /\ cell.ink # {}) =>
                  LET c == ch_list[cell.k + 1]
                      w == BoxWidth(cell.ink)
                      h == BoxHeight(cell.ink)
                      n == IF w <= 8 THEN 1 ELSE 2
                      at == RecOffset(ch_headers, cell.k) - ch_headers_len
                  IN  /\ Len(c.rows) = h
                      /\ \A r \in 1 .. h : c.rows[r] < Pow2(w)
                      /\ at + n * h <= Len(ch_rows)
                      /\ \A r \in 0 .. h - 1 :
                           SubSeq(ch_rows, at + n * r + 1, at + n * r + n)
                             = RowBytes(w, c.rows[r + 1])
           /\ ch_i = Len(ch_list) => Len(ch_rows) = BitmapBytesBefore(cells, ch_i)

\* the glyph of width 9 with the rows 000000001 and 100000000 is packed as
\* 01 00 00 01
C9_Witness ==
    /\ pc = "done"
    /\ \E cell \in GridCells :
         /\ BoxWidth(cell.ink) = 9
         /\ ch_list[cell.k + 1].rows = <<1, 256>>
         /\ SubSeq(f_data, RecOffset(f_data, cell.k) + 1, RecOffset(f_data, cell.k) + 4)
              = <<1, 0, 0, 1>>

(* C10: no assertion fails.  With cells at most 16 high no run ends in an  *)
(* AssertionError: every glyph with ink that passes the size check has     *)
(* ink in its first and last ink column, the extents of both columns and   *)
(* the top of the ink box are 0..15 rows from the top of the ink box and   *)
(* of the cell, and after the packing loop the header bytes are 4 per      *)
(* glyph.                                                                  *)
C10_NoAssertionFails ==
    ch_size[2] <= 16 =>
      /\ raised # "AssertionError"
      /\ \A k \in 0 .. Len(ch_list) - 1 :
           \A c \in {ch_list[k + 1]} :
             InkOf(GridRect(k)) # {} =>
               /\ c.y_min_first - c.y_min \in 0 .. 15
               /\ c.y_max_first - c.y_min \in 0 .. 15
               /\ c.y_min_last - c.y_min \in 0 .. 15
               /\ c.y_max_last - c.y_min \in 0 .. 15
               /\ c.y_min - c.im_rect_y \in 0 .. 15
               /\ c.y_min_first < c.y_max_first
               /\ c.y_min_last < c.y_max_last
      /\ (pc = "pack" /\ ch_i = Len(ch_list)) => Len(ch_headers) = 4 * Len(ch_list)
      /\ pc \in {"write", "done"} => Len(ch_headers) = 4 * Len(ch_list)

\* a glyph on the last row of a cell 16 high went through the asserts and
\* the length of the header table was checked
C10_Witness ==
    /\ pc = "write"
    /\ ch_size[2] = 16
    /\ \E k \in 0 .. Len(ch_list) - 1 :
         /\ InkOf(GridRect(k)) # {}
         /\ ch_list[k + 1].y_min - ch_list[k + 1].im_rect_y = 15

====
